---- MODULE Spec2Model ----
(***************************************************************************)
(* A model of the PodSec backend (src/backend/main.py, database.py): the   *)
(* credential store, the session tokens, and the request handlers that     *)
(* proxy secret operations to podman over one of two transports.           *)
(*                                                                         *)
(* Each HTTP request is one atomic action: the handlers share no state     *)
(* but the credential store, and a handler runs to its response.  What a   *)
(* request did is kept in `last`: the response, the trace of outward calls *)
(* (subprocess, HTTP, token issue) and the number of database commits.     *)
(* The external runtime is the environment: the outcome of every backend   *)
(* call is an input of the action.                                         *)
(***************************************************************************)
EXTENDS Integers, Sequences, FiniteSets, TLC

VARIABLES
    USE_HTTP_API,   \* main.py:35, fixed at start-up
    started,        \* the startup event has run init_db
    users,          \* the rows of the users table
    now,            \* the clock, in minutes
    issued,         \* every token create_access_token has signed
    last            \* the last request: what came in, what went out

vars == <<USE_HTTP_API, started, users, now, issued, last>>

----------------------------------------------------------------------------
(* Bounds *)

MaxTime == 2      \* the clock stops here
MaxSalt == 2      \* salts a hash may draw
MaxTokens == 2    \* logins that succeed
MaxPad == 1       \* whitespace around a submitted name
MaxBulk == 3      \* entries of a bulk request
MaxStore == 2     \* secrets the external runtime holds

----------------------------------------------------------------------------
(* Credential store and password hashing *)

Passwords == {"admin", "s3cret"}
Usernames == {"admin", "mallory"}
Salts == 1..MaxSalt

\* hash_password: salted and one-way; the hash is opaque but for verification
get_password_hash(plain, salt) == [plain |-> plain, salt |-> salt]

verify_password(plain, hashed) == hashed.plain = plain

NoUser == [id |-> 0, username |-> "", hashed_password |-> [plain |-> "", salt |-> 0],
           created_at |-> 0, updated_at |-> 0]

User(id, username, hashed, at) ==
    [id |-> id, username |-> username, hashed_password |-> hashed,
     created_at |-> at, updated_at |-> at]

\* db.query(User).filter(User.username == name).first()
QueryUser(name) ==
    IF \E u \in users : u.username = name
    THEN CHOOSE u \in users : u.username = name
    ELSE NoUser

authenticate_user(username, password) ==
    LET user == QueryUser(username) IN
    IF user = NoUser THEN NoUser
    ELSE IF ~verify_password(password, user.hashed_password) THEN NoUser
    ELSE user

----------------------------------------------------------------------------
(* Session tokens *)

ACCESS_TOKEN_EXPIRE_MINUTES == 2

NoToken == [sub |-> "", iat |-> 0, exp |-> 0, sig |-> "none"]

create_access_token(sub, expires_delta) ==
    [sub |-> sub, iat |-> now, exp |-> now + expires_delta, sig |-> "signed"]

\* a token the server never signed, claiming the bootstrap user for ever
Forged == [sub |-> "admin", iat |-> 0,
           exp |-> MaxTime + ACCESS_TOKEN_EXPIRE_MINUTES + 1, sig |-> "forged"]

get_current_user(token) ==
    IF token.sig # "signed" THEN NoUser
    ELSE IF now >= token.exp THEN NoUser
    ELSE QueryUser(token.sub)

----------------------------------------------------------------------------
(* The record of a request *)

Request(op, token, input, env) ==
    [op |-> op, at |-> now, token |-> token, input |-> input, env |-> env,
     status |-> 0, body |-> "", calls |-> <<>>, commits |-> 0]

Respond(req, status, body, calls, commits) ==
    [req EXCEPT !.status = status, !.body = body, !.calls = calls, !.commits = commits]

Unauthorized(req) == Respond(req, 401, "Could not validate credentials", <<>>, 0)

----------------------------------------------------------------------------
(* database.py *)

\* init_db without the `if not admin` test: the bootstrap user is added anyway
init_db_unchecked(salt) ==
    /\ started' = TRUE
    /\ users' = users \cup {User(Cardinality(users) + 1, "admin",
                                 get_password_hash("admin", salt), now)}
    /\ UNCHANGED <<USE_HTTP_API, now, issued, last>>

init_db(salt) ==
    /\ started' = TRUE
    /\ IF QueryUser("admin") = NoUser
       THEN users' = users \cup {User(Cardinality(users) + 1, "admin",
                                      get_password_hash("admin", salt), now)}
       ELSE users' = users
    /\ UNCHANGED <<USE_HTTP_API, now, issued, last>>

----------------------------------------------------------------------------
(* Authentication endpoints *)

\* timedelta(hours=...) for timedelta(minutes=...)
access_token_expires_hours == ACCESS_TOKEN_EXPIRE_MINUTES * 60

access_token_expires == ACCESS_TOKEN_EXPIRE_MINUTES

\* login without the `if not user` test: a token for whoever asks
login_anyone(username, password) ==
    /\ started
    /\ Cardinality(issued) < MaxTokens
    /\ LET req == Request("login", NoToken, <<username, password>>, "")
           access_token == create_access_token(username, access_token_expires)
       IN  /\ issued' = issued \cup {access_token}
           /\ last' = Respond(req, 200, access_token, <<"create_access_token">>, 0)
    /\ UNCHANGED <<USE_HTTP_API, started, users, now>>

login(username, password) ==
    /\ started
    /\ authenticate_user(username, password) = NoUser \/ Cardinality(issued) < MaxTokens
    /\ LET req == Request("login", NoToken, <<username, password>>, "")
           user == authenticate_user(username, password)
       IN  IF user = NoUser
           THEN /\ last' = Respond(req, 401, "Incorrect username or password", <<>>, 0)
                /\ UNCHANGED issued
           ELSE LET access_token == create_access_token(user.username, access_token_expires)
                IN  /\ issued' = issued \cup {access_token}
                    /\ last' = Respond(req, 200, access_token, <<"create_access_token">>, 0)
    /\ UNCHANGED <<USE_HTTP_API, started, users, now>>

get_current_user_info(token) ==
    /\ started
    /\ LET req == Request("get_current_user_info", token, "", "")
           current_user == get_current_user(token)
       IN  last' = IF current_user = NoUser THEN Unauthorized(req)
                   ELSE Respond(req, 200, [username |-> current_user.username,
                                           created_at |-> current_user.created_at], <<>>, 0)
    /\ UNCHANGED <<USE_HTTP_API, started, users, now, issued>>

\* change_password without the test of the current password
change_password_unverified(token, current_password, new_password, salt) ==
    /\ started
    /\ LET req == Request("change_password", token, <<current_password, new_password>>, "")
           current_user == get_current_user(token)
       IN  IF current_user = NoUser
           THEN last' = Unauthorized(req) /\ UNCHANGED users
           ELSE /\ users' = (users \ {current_user}) \cup
                      {[current_user EXCEPT
                          !.hashed_password = get_password_hash(new_password, salt),
                          !.updated_at = now]}
                /\ last' = Respond(req, 200, "Password changed successfully", <<>>, 1)
    /\ UNCHANGED <<USE_HTTP_API, started, now, issued>>

change_password(token, current_password, new_password, salt) ==
    /\ started
    /\ LET req == Request("change_password", token, <<current_password, new_password>>, "")
           current_user == get_current_user(token)
       IN  IF current_user = NoUser
           THEN last' = Unauthorized(req) /\ UNCHANGED users
           ELSE IF ~verify_password(current_password, current_user.hashed_password)
           THEN /\ last' = Respond(req, 400, "Current password is incorrect", <<>>, 0)
                /\ UNCHANGED users
           ELSE /\ users' = (users \ {current_user}) \cup
                      {[current_user EXCEPT
                          !.hashed_password = get_password_hash(new_password, salt),
                          !.updated_at = now]}
                /\ last' = Respond(req, 200, "Password changed successfully", <<>>, 1)
    /\ UNCHANGED <<USE_HTTP_API, started, now, issued>>

----------------------------------------------------------------------------
(* JSON values: a dict is a function on strings, a list is a sequence *)

EmptyDict == <<>>

\* Python truthiness of a parsed JSON container
Falsy(v) == DOMAIN v = {}

\* d.get(key, default)
Get(d, key, default) == IF key \in DOMAIN d THEN d[key] ELSE default

Return(v) == [raised |-> FALSE, exc |-> "", status |-> 0, value |-> v]
Raise(exc, status) == [raised |-> TRUE, exc |-> exc, status |-> status, value |-> EmptyDict]

----------------------------------------------------------------------------
(* The external runtime, as the two transports see it *)

PODMAN_HOST == IF USE_HTTP_API THEN "tcp://podman:8080" ELSE ""
PODMAN_CONNECTION == "my-tcp"

\* what one backend call met: kind is the outcome, code the upstream HTTP
\* status, json the parsed output, data the secrets the runtime then held
Outcome(kind, code, json, data) == [kind |-> kind, code |-> code, json |-> json, data |-> data]

HttpCall(method, endpoint, arg) == [via |-> "http", cmd |-> <<method, endpoint>>, arg |-> arg]
ExecCall(args, arg) == [via |-> "exec", cmd |-> args, arg |-> arg]

http_api_request(env) ==
    CASE env.kind = "ok" -> Return(env.json)
      [] env.kind = "empty" -> Return(EmptyDict)
      [] env.kind = "status" -> Raise("HTTPException", env.code)
      [] OTHER -> Raise("HTTPException", 500)

run_podman_command(env) ==
    CASE env.kind = "ok" -> Return(env.json)
      [] env.kind = "empty" -> Return(EmptyDict)
      [] env.kind = "nonzero" -> Raise("HTTPException", 500)
      [] env.kind = "badjson" -> Raise("HTTPException", 500)
      [] env.kind = "missing" -> Raise("HTTPException", 500)
      [] OTHER -> Raise("Exception", 500)

\* FastAPI's response_model: the declared fields are required, others dropped
SecretResponse == {"ID", "Name", "Driver", "CreatedAt", "UpdatedAt"}
SecretDetail == {"ID", "Name", "Driver", "CreatedAt", "UpdatedAt", "Spec"}

Conforms(model, obj) == model \subseteq DOMAIN obj
Serialize(model, obj) == [k \in model |-> obj[k]]

----------------------------------------------------------------------------
(* The secrets the external runtime holds, and how each transport shows them *)

SecretIds == 1..MaxStore

Secret(i) == [ID |-> i, Name |-> <<"secret", i>>,
              Driver |-> IF i % 2 = 1 THEN "file" ELSE "pass",
              CreatedAt |-> i, UpdatedAt |-> i + 1]

\* the runtime's ordered collections of distinct secrets
Stores ==
    {<<>>} \cup
    UNION {{q \in [1..n -> SecretIds] : \A i, j \in 1..n : i # j => q[i] # q[j]} : n \in 1..MaxStore}

SpecOf(s) == [Name |-> s.Name, Driver |-> [Name |-> s.Driver, Options |-> EmptyDict]]

\* libpod's SecretInfoReport: name and driver sit inside Spec
Nested(s) == [ID |-> s.ID, CreatedAt |-> s.CreatedAt, UpdatedAt |-> s.UpdatedAt,
              Spec |-> SpecOf(s)]

\* the CLI prints either the flat report or the same SecretInfoReport
Shapes == {"flat", "nested"}
CliListItem(shape, s) == IF shape = "flat" THEN s ELSE Nested(s)
CliInspectItem(shape, s) == IF shape = "flat" THEN s @@ ("Spec" :> SpecOf(s)) ELSE Nested(s)

Holds(data, secret_id) == \E i \in DOMAIN data : data[i] = secret_id
Failure(kind, code) == Outcome(kind, code, EmptyDict, <<>>)

ListEnv ==
    IF USE_HTTP_API
    THEN {Outcome("ok", 200, [i \in DOMAIN d |-> Nested(Secret(d[i]))], d) : d \in Stores}
         \cup {Failure("empty", 200), Failure("status", 500), Failure("connfail", 0),
               Failure("badjson", 200)}
    ELSE {Outcome("ok", 0, [i \in DOMAIN d |-> CliListItem(sh, Secret(d[i]))], d) :
              d \in Stores, sh \in Shapes}
         \cup {Failure("empty", 0), Failure("nonzero", 125), Failure("badjson", 0),
               Failure("missing", 0)}

InspectEnv(secret_id) ==
    IF USE_HTTP_API
    THEN {IF Holds(d, secret_id) THEN Outcome("ok", 200, Nested(Secret(secret_id)), d)
          ELSE Outcome("status", 404, EmptyDict, d) : d \in Stores}
         \cup {Outcome("empty", 200, EmptyDict, d) : d \in {e \in Stores : ~Holds(e, secret_id)}}
         \cup {Failure("status", 500), Failure("connfail", 0), Failure("badjson", 200)}
    ELSE {IF Holds(d, secret_id)
          THEN Outcome("ok", 0, <<CliInspectItem(sh, Secret(secret_id))>>, d)
          ELSE Outcome("nonzero", 125, EmptyDict, d) : d \in Stores, sh \in Shapes}
         \cup {Outcome("ok", 0, <<>>, d) : d \in {e \in Stores : ~Holds(e, secret_id)}}
         \cup {Failure("badjson", 0), Failure("missing", 0)}

DeleteEnv ==
    IF USE_HTTP_API
    THEN {Failure("empty", 204), Failure("status", 404), Failure("status", 500),
          Failure("connfail", 0)}
    ELSE {Failure("ok", 0), Failure("nonzero", 125), Failure("missing", 0)}

HealthEnv ==
    IF USE_HTTP_API
    THEN {Outcome("ok", 200, [Version |-> "4.9.3"], <<>>), Outcome("ok", 200, [ApiVersion |-> "4"], <<>>),
          Failure("empty", 200), Failure("status", 500), Failure("connfail", 0),
          Failure("badjson", 200)}
    ELSE {Outcome("ok", 0, [Client |-> [Version |-> "4.9.3"]], <<>>),
          Outcome("ok", 0, [Server |-> [Version |-> "4.9.3"]], <<>>),
          Failure("empty", 0), Failure("nonzero", 125), Failure("badjson", 0),
          Failure("missing", 0)}

----------------------------------------------------------------------------
(* Secrets endpoints: list, inspect, delete *)

Flatten(secret) ==
    [ID |-> Get(secret, "ID", ""),
     Name |-> Get(Get(secret, "Spec", EmptyDict), "Name", ""),
     Driver |-> Get(Get(Get(secret, "Spec", EmptyDict), "Driver", EmptyDict), "Name", "file"),
     CreatedAt |-> Get(secret, "CreatedAt", ""),
     UpdatedAt |-> Get(secret, "UpdatedAt", "")]

FlattenDetail(result) == Flatten(result) @@ ("Spec" :> Get(result, "Spec", EmptyDict))

\* the handler's return value through response_model
Validated(req, model, value, calls) ==
    IF Conforms(model, value)
    THEN Respond(req, 200, Serialize(model, value), calls, 0)
    ELSE Respond(req, 500, "Internal Server Error", calls, 0)

ValidatedList(req, model, values, calls) ==
    IF \A i \in DOMAIN values : Conforms(model, values[i])
    THEN Respond(req, 200, [i \in DOMAIN values |-> Serialize(model, values[i])], calls, 0)
    ELSE Respond(req, 500, "Internal Server Error", calls, 0)

list_secrets(token, env) ==
    /\ started
    /\ LET req == Request("list_secrets", token, "", env)
           current_user == get_current_user(token)
           call == IF USE_HTTP_API THEN HttpCall("GET", "/secrets/json", "")
                   ELSE ExecCall(<<"secret", "ls", "--format", "json">>, "")
           r == IF USE_HTTP_API THEN http_api_request(env) ELSE run_podman_command(env)
       IN  last' =
             IF current_user = NoUser THEN Unauthorized(req)
             ELSE IF r.raised THEN Respond(req, r.status, r.exc, <<call>>, 0)
             ELSE IF Falsy(r.value) THEN Respond(req, 200, <<>>, <<call>>, 0)
             ELSE IF USE_HTTP_API
             THEN ValidatedList(req, SecretResponse,
                                [i \in DOMAIN r.value |-> Flatten(r.value[i])], <<call>>)
             ELSE ValidatedList(req, SecretResponse, r.value, <<call>>)
    /\ UNCHANGED <<USE_HTTP_API, started, users, now, issued>>

inspect_secret(token, secret_id, env) ==
    /\ started
    /\ LET req == Request("inspect_secret", token, secret_id, env)
           current_user == get_current_user(token)
           call == IF USE_HTTP_API THEN HttpCall("GET", "/secrets/{id}/json", secret_id)
                   ELSE ExecCall(<<"secret", "inspect">>, secret_id)
           r == IF USE_HTTP_API THEN http_api_request(env) ELSE run_podman_command(env)
       IN  last' =
             IF current_user = NoUser THEN Unauthorized(req)
             ELSE IF r.raised /\ r.exc = "HTTPException"
             THEN Respond(req, r.status, r.exc, <<call>>, 0)
             ELSE IF r.raised THEN Respond(req, 500, r.exc, <<call>>, 0)
             ELSE IF Falsy(r.value) THEN Respond(req, 404, "Secret not found", <<call>>, 0)
             ELSE IF USE_HTTP_API
             THEN Validated(req, SecretDetail, FlattenDetail(r.value), <<call>>)
             ELSE Validated(req, SecretDetail, r.value[1], <<call>>)
    /\ UNCHANGED <<USE_HTTP_API, started, users, now, issued>>

\* delete_secret without Depends(get_current_user)
delete_secret_open(token, secret_id, env) ==
    /\ started
    /\ LET req == Request("delete_secret", token, secret_id, env)
           call == IF USE_HTTP_API THEN HttpCall("DELETE", "/secrets/{id}", secret_id)
                   ELSE ExecCall(<<"secret", "rm">>, secret_id)
           r == http_api_request(env)
       IN  last' =
             IF USE_HTTP_API
             THEN IF r.raised THEN Respond(req, r.status, r.exc, <<call>>, 0)
                  ELSE Respond(req, 200, "Secret deleted successfully", <<call>>, 0)
             ELSE CASE env.kind = "ok" ->
                         Respond(req, 200, "Secret deleted successfully", <<call>>, 0)
                    [] env.kind = "nonzero" ->
                         Respond(req, 400, "Failed to delete secret", <<call>>, 0)
                    [] OTHER -> Respond(req, 500, "Exception", <<call>>, 0)
    /\ UNCHANGED <<USE_HTTP_API, started, users, now, issued>>

delete_secret(token, secret_id, env) ==
    /\ started
    /\ LET req == Request("delete_secret", token, secret_id, env)
           current_user == get_current_user(token)
           call == IF USE_HTTP_API THEN HttpCall("DELETE", "/secrets/{id}", secret_id)
                   ELSE ExecCall(<<"secret", "rm">>, secret_id)
           r == http_api_request(env)
       IN  last' =
             IF current_user = NoUser THEN Unauthorized(req)
             ELSE IF USE_HTTP_API
             THEN IF r.raised THEN Respond(req, r.status, r.exc, <<call>>, 0)
                  ELSE Respond(req, 200, "Secret deleted successfully", <<call>>, 0)
             ELSE CASE env.kind = "ok" ->
                         Respond(req, 200, "Secret deleted successfully", <<call>>, 0)
                    [] env.kind = "nonzero" ->
                         Respond(req, 400, "Failed to delete secret", <<call>>, 0)
                    [] OTHER -> Respond(req, 500, "Exception", <<call>>, 0)
    /\ UNCHANGED <<USE_HTTP_API, started, users, now, issued>>

----------------------------------------------------------------------------
(* Strings that matter by their length: a string is a sequence of runs,    *)
(* each a character and how many times it repeats                          *)

NAME_MAX == 253

Whitespace == {" ", "\n"}
ForbiddenChars == {"=", "/", ",", "NUL"}

Run(c, n) == IF n = 0 THEN <<>> ELSE <<[c |-> c, n |-> n]>>
Plain(n) == Run("a", n)
Pad(n) == Run(" ", n)

RECURSIVE len(_)
len(str) == IF str = <<>> THEN 0 ELSE Head(str).n + len(Tail(str))

RECURSIVE lstrip(_)
lstrip(str) ==
    IF str # <<>> /\ Head(str).c \in Whitespace THEN lstrip(Tail(str)) ELSE str

RECURSIVE rstrip(_)
rstrip(str) ==
    IF str # <<>> /\ str[Len(str)].c \in Whitespace
    THEN rstrip(SubSeq(str, 1, Len(str) - 1)) ELSE str

strip(str) == rstrip(lstrip(str))

\* char in str
Contains(str, char) == \E i \in DOMAIN str : str[i].c = char

b64encode(data) == <<"base64", data>>

----------------------------------------------------------------------------
(* Secret creation *)

\* the limit taken one short: a name of NAME_MAX characters is turned away
BadLength_short(secret_name) ==
    secret_name = <<>> \/ len(secret_name) < 1 \/ len(secret_name) >= NAME_MAX

\* main.py:253, and the same test at main.py:337
BadLength(secret_name) ==
    secret_name = <<>> \/ len(secret_name) < 1 \/ len(secret_name) > NAME_MAX

\* main.py:259, and the same test at main.py:341
BadChars(secret_name) == \E char \in ForbiddenChars : Contains(secret_name, char)

SecretCreate(name) == [name |-> name, data |-> "value", driver |-> "file"]

CreateCall(secret, secret_name) ==
    IF USE_HTTP_API
    THEN HttpCall("POST", "/secrets/create",
                  [name |-> secret_name, data |-> b64encode(secret.data),
                   driver |-> secret.driver])
    ELSE ExecCall(<<"secret", "create", secret_name, "-">>,
                  [name |-> secret_name, data |-> secret.data, driver |-> ""])

NewId == Plain(25)

CreateEnv ==
    IF USE_HTTP_API
    THEN {Outcome("ok", 201, [ID |-> NewId], <<>>), Failure("empty", 200),
          Failure("status", 409), Failure("connfail", 0)}
    ELSE {Outcome("ok", 0, NewId \o Run("\n", 1), <<>>), Failure("nonzero", 125),
          Failure("missing", 0)}

create_secret(token, secret, env) ==
    /\ started
    /\ LET req == Request("create_secret", token, secret, env)
           current_user == get_current_user(token)
           secret_name == strip(secret.name)
           call == CreateCall(secret, secret_name)
           r == http_api_request(env)
           created(secret_id) ==
               Respond(req, 201, [id |-> secret_id, name |-> secret_name,
                                  message |-> "Secret created successfully"], <<call>>, 0)
       IN  last' =
             IF current_user = NoUser THEN Unauthorized(req)
             ELSE IF BadLength(secret_name)
             THEN Respond(req, 400, "Secret name must be between 1 and 253 characters", <<>>, 0)
             ELSE IF BadChars(secret_name)
             THEN Respond(req, 400, "Secret name cannot contain '=', '/', ',' or NULL characters",
                          <<>>, 0)
             ELSE IF USE_HTTP_API
             THEN IF r.raised THEN Respond(req, r.status, r.exc, <<call>>, 0)
                  ELSE created(Get(r.value, "ID", ""))
             ELSE CASE env.kind = "ok" -> created(strip(env.json))
                    [] env.kind = "nonzero" ->
                         Respond(req, 400, "Failed to create secret", <<call>>, 0)
                    [] OTHER -> Respond(req, 500, "Exception", <<call>>, 0)
    /\ UNCHANGED <<USE_HTTP_API, started, users, now, issued>>

NoResults == [success |-> <<>>, failed |-> <<>>, calls |-> <<>>]

Failed(results, name, error) ==
    [results EXCEPT !.failed = Append(@, [name |-> name, error |-> error])]

Succeeded(results, secret_id, name) ==
    [results EXCEPT !.success = Append(@, [id |-> secret_id, name |-> name])]

Called(results, call) == [results EXCEPT !.calls = Append(@, call)]

\* the loop body without its `continue`: a name that fails validation is
\* recorded as failed and still sent to the backend
BulkEntry_fallthrough(results, secret, env) ==
    LET secret_name == strip(secret.name)
        checked == IF BadLength(secret_name)
                   THEN Failed(results, secret.name, "Name must be 1-253 characters")
                   ELSE IF BadChars(secret_name)
                   THEN Failed(results, secret.name, "Invalid characters in name")
                   ELSE results
        called == Called(checked, CreateCall(secret, secret_name))
        r == http_api_request(env)
    IN  IF USE_HTTP_API
        THEN IF r.raised THEN Failed(called, secret.name, r.exc)
             ELSE Succeeded(called, Get(r.value, "ID", ""), secret_name)
        ELSE CASE env.kind = "ok" -> Succeeded(called, strip(env.json), secret_name)
               [] env.kind = "nonzero" -> Failed(called, secret_name, "stderr")
               [] OTHER -> Failed(called, secret.name, "Exception")

\* one turn of the loop of create_bulk_secrets, main.py:333-371
BulkEntry(results, secret, env) ==
    LET secret_name == strip(secret.name)
        called == Called(results, CreateCall(secret, secret_name))
        r == http_api_request(env)
    IN  IF BadLength(secret_name)
        THEN Failed(results, secret.name, "Name must be 1-253 characters")
        ELSE IF BadChars(secret_name)
        THEN Failed(results, secret.name, "Invalid characters in name")
        ELSE IF USE_HTTP_API
        THEN IF r.raised THEN Failed(called, secret.name, r.exc)
             ELSE Succeeded(called, Get(r.value, "ID", ""), secret_name)
        ELSE CASE env.kind = "ok" -> Succeeded(called, strip(env.json), secret_name)
               [] env.kind = "nonzero" -> Failed(called, secret_name, "stderr")
               [] OTHER -> Failed(called, secret.name, "Exception")

\* the loop with a `break` at the first failed entry
RECURSIVE BulkLoop_break(_, _, _, _)
BulkLoop_break(results, secrets, envs, i) ==
    IF i > Len(secrets) \/ results.failed # <<>> THEN results
    ELSE BulkLoop_break(BulkEntry(results, secrets[i], envs[i]), secrets, envs, i + 1)

RECURSIVE BulkLoop(_, _, _, _)
BulkLoop(results, secrets, envs, i) ==
    IF i > Len(secrets) THEN results
    ELSE BulkLoop(BulkEntry(results, secrets[i], envs[i]), secrets, envs, i + 1)

create_bulk_secrets(token, secrets, envs) ==
    /\ started
    /\ LET req == Request("create_bulk_secrets", token, secrets, envs)
           current_user == get_current_user(token)
           results == BulkLoop(NoResults, secrets, envs, 1)
       IN  last' =
             IF current_user = NoUser THEN Unauthorized(req)
             ELSE Respond(req, 201, [success |-> results.success, failed |-> results.failed],
                          results.calls, 0)
    /\ UNCHANGED <<USE_HTTP_API, started, users, now, issued>>

----------------------------------------------------------------------------
(* Health *)

Unavailable(error) == [podman_available |-> FALSE, error |-> error]

Available(version, mode) ==
    [podman_available |-> TRUE, version |-> version,
     host |-> IF PODMAN_HOST # "" THEN PODMAN_HOST ELSE "default",
     connection |-> IF PODMAN_CONNECTION # "" THEN PODMAN_CONNECTION ELSE "default",
     mode |-> mode]

\* health_check without its try/except: a failed backend call is a 500
health_check_raising(env) ==
    /\ started
    /\ LET req == Request("health_check", NoToken, "", env)
           call == IF USE_HTTP_API THEN HttpCall("GET", "/version", "")
                   ELSE ExecCall(<<"version", "--format", "json">>, "")
           r == http_api_request(env)
       IN  last' =
             IF USE_HTTP_API
             THEN IF r.raised THEN Respond(req, r.status, r.exc, <<call>>, 0)
                  ELSE Respond(req, 200,
                               Available(Get(r.value, "Version", "unknown"), "HTTP API"),
                               <<call>>, 0)
             ELSE CASE env.kind = "ok" ->
                         Respond(req, 200,
                                 Available(Get(Get(env.json, "Client", EmptyDict),
                                               "Version", "unknown"), "CLI"),
                                 <<call>>, 0)
                    [] OTHER -> Respond(req, 500, "Internal Server Error", <<call>>, 0)
    /\ UNCHANGED <<USE_HTTP_API, started, users, now, issued>>

health_check(env) ==
    /\ started
    /\ LET req == Request("health_check", NoToken, "", env)
           call == IF USE_HTTP_API THEN HttpCall("GET", "/version", "")
                   ELSE ExecCall(<<"version", "--format", "json">>, "")
           r == http_api_request(env)
       IN  last' =
             IF USE_HTTP_API
             THEN IF r.raised THEN Respond(req, 200, Unavailable(r.exc), <<call>>, 0)
                  ELSE Respond(req, 200,
                               Available(Get(r.value, "Version", "unknown"), "HTTP API"),
                               <<call>>, 0)
             ELSE CASE env.kind = "ok" ->
                         Respond(req, 200,
                                 Available(Get(Get(env.json, "Client", EmptyDict),
                                               "Version", "unknown"), "CLI"),
                                 <<call>>, 0)
                    [] env.kind = "nonzero" ->
                         Respond(req, 200, Unavailable("CalledProcessError"), <<call>>, 0)
                    [] env.kind = "missing" ->
                         Respond(req, 200, Unavailable("FileNotFoundError"), <<call>>, 0)
                    [] OTHER ->
                         Respond(req, 200, Unavailable("JSONDecodeError"), <<call>>, 0)
    /\ UNCHANGED <<USE_HTTP_API, started, users, now, issued>>

----------------------------------------------------------------------------
(* The clock *)

Tick ==
    /\ started
    /\ now < MaxTime
    /\ now' = now + 1
    /\ UNCHANGED <<USE_HTTP_API, started, users, issued, last>>

----------------------------------------------------------------------------
(* Inputs *)

Bearers == {NoToken, Forged} \cup issued

\* submitted names: empty, shortest, at and around the limit, with a forbidden
\* or a blank character inside, each with blanks before and after
Cores ==
    {Plain(n) : n \in {0, 1, NAME_MAX - 1, NAME_MAX, NAME_MAX + 1}}
    \cup {Plain(m) \o Run(c, 1) \o Plain(k) : c \in ForbiddenChars \cup {" "}, m, k \in {0, 1}}
    \cup {Plain(NAME_MAX - 1) \o Run(c, 1) : c \in ForbiddenChars}

Names == {Pad(l) \o core \o Pad(r) : l, r \in 0..MaxPad, core \in Cores}

BulkNames ==
    {<<>>, Pad(1), Plain(1), Pad(1) \o Plain(NAME_MAX), Plain(NAME_MAX + 1),
     Plain(1) \o Run("=", 1)}

BulkEnv == {e \in CreateEnv : e.kind # "empty"}

BulkSecrets == UNION {[1..n -> {SecretCreate(name) : name \in BulkNames}] : n \in 0..MaxBulk}

\* a backend that answers
Probe(envs) == {e \in envs : /\ e.kind = "ok" \/ e.code = 204
                             /\ e.data \in {<<>>, <<1>>}}

ProbeSecrets == {SecretCreate(Plain(1)), SecretCreate(Plain(1) \o Run("/", 1))}

ProbeBulk == <<SecretCreate(Plain(1)), SecretCreate(Plain(1) \o Run("/", 1)),
               SecretCreate(Pad(1) \o Plain(1))>>

----------------------------------------------------------------------------
(* The server from its first start: the credential store, the clock, the   *)
(* tokens, and every protected endpoint against a backend that answers or  *)
(* fails                                                                   *)

Init ==
    /\ USE_HTTP_API \in BOOLEAN
    /\ started = FALSE
    /\ users = {}
    /\ now = 0
    /\ issued = {}
    /\ last = Request("none", NoToken, "", "")

Next ==
    \/ \E salt \in Salts : init_db(salt)
    \/ Tick
    \/ \E u \in Usernames, p \in Passwords : login(u, p)
    \/ \E t \in Bearers : get_current_user_info(t)
    \/ \E t \in Bearers, c \in Passwords, n \in Passwords, salt \in Salts :
          change_password(t, c, n, salt)
    \/ \E t \in Bearers, env \in Probe(ListEnv) : list_secrets(t, env)
    \/ \E t \in Bearers, env \in Probe(InspectEnv(1)) : inspect_secret(t, 1, env)
    \/ \E t \in Bearers, env \in Probe(DeleteEnv) : delete_secret(t, 1, env)
    \/ \E t \in Bearers, secret \in ProbeSecrets, env \in Probe(CreateEnv) :
          create_secret(t, secret, env)
    \/ \E t \in Bearers, env \in Probe(CreateEnv) :
          create_bulk_secrets(t, ProbeBulk, [i \in DOMAIN ProbeBulk |-> env])

Spec == Init /\ [][Next]_vars

----------------------------------------------------------------------------
(* The server in service, the bootstrap user logged in: every answer of    *)
(* the external runtime to list, inspect, delete and health                *)

InitServing ==
    /\ USE_HTTP_API \in BOOLEAN
    /\ started = TRUE
    /\ users = {User(1, "admin", get_password_hash("admin", 1), 0)}
    /\ now = 0
    /\ issued = {[sub |-> "admin", iat |-> 0, exp |-> access_token_expires, sig |-> "signed"]}
    /\ last = Request("none", NoToken, "", "")

NextTransport ==
    \/ \E t \in Bearers, env \in ListEnv : list_secrets(t, env)
    \/ \E t \in Bearers, id \in SecretIds : \E env \in InspectEnv(id) : inspect_secret(t, id, env)
    \/ \E t \in Bearers, id \in SecretIds, env \in DeleteEnv : delete_secret(t, id, env)
    \/ \E env \in HealthEnv : health_check(env)

SpecTransport == InitServing /\ [][NextTransport]_vars

----------------------------------------------------------------------------
(* One creation request of the logged-in user, over every submitted name   *)
(* and every answer of the external runtime.  The handlers read nothing a  *)
(* request leaves behind, so one request from the serving state is all of  *)
(* their behaviour.                                                        *)

NextNames ==
    \/ /\ last.op = "none"
       /\ \E t \in issued, name \in Names, env \in CreateEnv :
             create_secret(t, SecretCreate(name), env)
    \/ /\ last.op = "none"
       /\ \E t \in issued, secrets \in BulkSecrets :
             \E envs \in [DOMAIN secrets -> BulkEnv] : create_bulk_secrets(t, secrets, envs)

SpecNames == InitServing /\ [][NextNames]_vars

----------------------------------------------------------------------------
(* The credential store over process restarts: a process starts on the     *)
(* store an earlier run left behind (none yet, or the bootstrap user with  *)
(* the password it had then), runs init_db at startup and again at every   *)
(* later restart, and serves logins and password changes in between.       *)

Persisted ==
    {{}} \cup {{User(1, "admin", get_password_hash(p, salt), 0)} :
                  p \in Passwords, salt \in Salts}

InitStore ==
    /\ USE_HTTP_API \in BOOLEAN
    /\ started = FALSE
    /\ users \in Persisted
    /\ now = 0
    /\ issued = {}
    /\ last = Request("none", NoToken, "", "")

NextStore ==
    \/ \E salt \in Salts : init_db(salt)
    \/ Tick
    \/ \E u \in Usernames, p \in Passwords : login(u, p)
    \/ \E t \in Bearers, c \in Passwords, n \in Passwords, salt \in Salts :
          change_password(t, c, n, salt)

SpecStore == InitStore /\ [][NextStore]_vars

----------------------------------------------------------------------------
(* Properties *)

ProtectedOps ==
    {"list_secrets", "create_secret", "create_bulk_secrets", "inspect_secret",
     "delete_secret", "get_current_user_info", "change_password"}

\* the bearer of a request was, when it came, no token the server signed or one
\* past its expiry
BadBearer(req) == req.token \notin issued \/ req.at >= req.token.exp

\* C1: a protected operation whose bearer token is missing, invalid or expired
\* ends with 401 before its handler body runs: no backend call is made, no
\* commit is made, and the credential store is left as it was.
C1_Rejected ==
    (last.op \in ProtectedOps /\ BadBearer(last)) =>
        (last.status = 401 /\ last.calls = <<>> /\ last.commits = 0)

C1_NoWrite == (last'.op \in ProtectedOps /\ BadBearer(last')) => users' = users

C1_TokenValidationFirst == []C1_Rejected /\ [][C1_NoWrite]_vars

\* an expired token of the bootstrap user was turned away from change_password
C1_Witness ==
    /\ last.op = "change_password"
    /\ last.token \in issued
    /\ last.at >= last.token.exp
    /\ last.status = 401

\* a request turned away by the name validation: 400 and no backend call
RejectedName(req) == req.status = 400 /\ req.calls = <<>>

NameOk(name) ==
    /\ len(name) >= 1
    /\ len(name) <= NAME_MAX
    /\ \A char \in ForbiddenChars : ~Contains(name, char)

\* C2 as stated: create_secret rejects with 400 and without a backend call
\* every submitted name that is empty, 254 or more characters long or holds
\* '=', '/', ',' or NUL, and rejects no submitted name of 1 to 253 characters
\* that holds none of them.
C2_AsStated ==
    last.op = "create_secret" => (RejectedName(last) <=> ~NameOk(last.input.name))

\* C2, amended: the same of the name with its leading and trailing whitespace
\* stripped: create_secret rejects with 400 and without a backend call exactly
\* the names whose stripped form is empty, longer than 253 characters or holds
\* '=', '/', ',' or NUL.
C2_StrippedName ==
    last.op = "create_secret" => (RejectedName(last) <=> ~NameOk(strip(last.input.name)))

\* a submitted name of 254 characters, one of them a leading blank, went
\* through to the backend and was created
C2_Witness ==
    /\ last.op = "create_secret"
    /\ len(last.input.name) = NAME_MAX + 1
    /\ last.status = 201
    /\ Len(last.calls) = 1

\* the entries of a bulk request other than entry k, in input order
Others(secrets, k) == [i \in 1..(Len(secrets) - 1) |-> IF i < k THEN secrets[i] ELSE secrets[i + 1]]

\* what C3 promises of a bulk request whose only invalid entry is entry k
OnlyEntryFails(req, k) ==
    LET rest == Others(req.input, k) IN
    /\ req.status = 201
    /\ Len(req.body.failed) = 1
    /\ req.body.failed[1].name = req.input[k].name
    /\ Len(req.body.success) = Len(req.input) - 1
    /\ \A i \in DOMAIN rest : req.body.success[i].name = strip(rest[i].name)
    /\ Len(req.calls) = Len(req.input) - 1
    /\ \A i \in DOMAIN rest : req.calls[i].arg.name = strip(rest[i].name)

\* C3 as stated: a bulk request of N entries of which exactly entry k has an
\* invalid name (empty, longer than 253 characters, or with a forbidden
\* character), the backend accepting every other, yields one failed entry, the
\* one for k, and N-1 successes, with N-1 backend calls and none for entry k.
C3_AsStated ==
    last.op = "create_bulk_secrets" =>
        \A k \in DOMAIN last.input :
            (/\ ~NameOk(last.input[k].name)
             /\ \A j \in DOMAIN last.input \ {k} :
                    NameOk(last.input[j].name) /\ last.env[j].kind = "ok")
            => OnlyEntryFails(last, k)

\* C3, amended: the same with a name counted invalid when its form stripped of
\* leading and trailing whitespace is empty, longer than 253 characters or
\* holds a forbidden character.
C3_OneInvalidEntry ==
    last.op = "create_bulk_secrets" =>
        \A k \in DOMAIN last.input :
            (/\ ~NameOk(strip(last.input[k].name))
             /\ \A j \in DOMAIN last.input \ {k} :
                    NameOk(strip(last.input[j].name)) /\ last.env[j].kind = "ok")
            => OnlyEntryFails(last, k)

\* three entries, the middle one invalid, the others created
C3_Witness ==
    /\ last.op = "create_bulk_secrets"
    /\ Len(last.input) = 3
    /\ ~NameOk(strip(last.input[2].name))
    /\ len(last.input[3].name) = NAME_MAX + 1
    /\ Len(last.body.failed) = 1
    /\ Len(last.body.success) = 2
    /\ Len(last.calls) = 2

\* the entries of a bulk request, by what befalls them
PassesValidation(req, j) == NameOk(strip(req.input[j].name))
Created(req, j) == PassesValidation(req, j) /\ req.env[j].kind = "ok"

\* the indices of a bulk request that satisfy Test, in input order
Indices(req, Test(_, _)) ==
    SelectSeq([j \in DOMAIN req.input |-> j], LAMBDA j : Test(req, j))

NotCreated(req, j) == ~Created(req, j)

GoodCredentials(username, password) ==
    \E u \in users : u.username = username /\ verify_password(password, u.hashed_password)

\* a login request was just answered
LoginStep == last' # last /\ last'.op = "login"

C5_Login ==
    LoginStep =>
        IF GoodCredentials(last'.input[1], last'.input[2])
        THEN /\ last'.status = 200
             /\ last'.body.sig = "signed"
             /\ last'.body.sub = last'.input[1]
             /\ last'.body \in issued'
             /\ last'.calls = <<"create_access_token">>
        ELSE /\ last'.status = 401
             /\ last'.body = "Incorrect username or password"
             /\ last'.calls = <<>>
             /\ issued' = issued

C5_TokenAccepted ==
    (last.op \in ProtectedOps /\ last.token \in issued /\ last.at = last.token.iat) =>
        last.status # 401

\* C5: login issues an access token if and only if authenticate_user succeeds:
\* with correct credentials it answers 200 with a signed token whose subject is
\* the username, and a protected call that follows with that token is let in;
\* with an unknown username or a wrong password it answers the same 401 and
\* create_access_token is not called.
C5_LoginIssuesToken == [][C5_Login]_vars /\ []C5_TokenAccepted

\* the token of a login was presented straight away and let in
C5_Witness ==
    /\ last.op = "get_current_user_info"
    /\ last.token \in issued
    /\ last.at = last.token.iat
    /\ last.status = 200
    /\ last.body.username = "admin"

\* what token validation answers for an issued token, as C6 has it
C6_Validates ==
    \A t \in issued :
        IF now < t.iat + ACCESS_TOKEN_EXPIRE_MINUTES
        THEN get_current_user(t) # NoUser /\ get_current_user(t).username = t.sub
        ELSE get_current_user(t) = NoUser

C6_Answered ==
    (last.op \in ProtectedOps /\ last.token \in issued) =>
        (last.status = 401 <=> last.at >= last.token.iat + ACCESS_TOKEN_EXPIRE_MINUTES)

C6_StaysExpired ==
    \A t \in issued : get_current_user(t) = NoUser => (get_current_user(t) = NoUser)'

ChangeStep ==
    /\ last'.op = "change_password"
    /\ last' # last \/ users' # users
    /\ last'.status # 401

C7_Change ==
    ChangeStep =>
        LET name == last'.token.sub
            current == last'.input[1]
            new == last'.input[2]
            before == CHOOSE u \in users : u.username = name
        IN  IF ~verify_password(current, before.hashed_password)
            THEN /\ last'.status = 400
                 /\ last'.commits = 0
                 /\ users' = users
            ELSE /\ last'.status = 200
                 /\ last'.commits = 1
                 /\ \E after \in users' :
                       /\ users' = (users \ {before}) \cup {after}
                       /\ after.id = before.id
                       /\ after.username = before.username
                       /\ after.created_at = before.created_at
                       /\ verify_password(new, after.hashed_password)
                       /\ new # current => ~verify_password(current, after.hashed_password)
                 /\ \A u \in Usernames, p \in Passwords :
                       (u = name /\ p = new) => (authenticate_user(u, p) # NoUser)'
                 /\ \A u \in Usernames, p \in Passwords :
                       (u = name /\ p = current /\ new # current) =>
                           (authenticate_user(u, p) = NoUser)'

\* C7: change_password applies the new hash only when current_password
\* verifies against the stored hash of the authenticated user: when it does not,
\* the answer is 400, the stored record is unchanged and nothing is committed;
\* when it does, the stored hash becomes a hash of new_password, so that
\* new_password authenticates afterwards and the old password, if different,
\* does not.
C7_ChangePassword == [][C7_Change]_vars

\* the password was changed to another one, which now authenticates while the
\* old one does not
C7_Witness ==
    /\ last.op = "change_password"
    /\ last.status = 200
    /\ last.input[1] # last.input[2]
    /\ authenticate_user("admin", last.input[2]) # NoUser
    /\ authenticate_user("admin", last.input[1]) = NoUser

\* the backend answered the version request: a 2xx response, or exit status 0
\* with JSON on the standard output
BackendAnswered(req) ==
    IF USE_HTTP_API THEN req.env.kind \in {"ok", "empty"} ELSE req.env.kind = "ok"

\* C8: health_check never raises, in either mode: whatever the backend does
\* (success, non-zero exit, missing executable, malformed JSON, non-2xx
\* response, connection failure or timeout) it answers 200 with a structured
\* result, podman_available = true and a version when the backend answered,
\* podman_available = false and an error otherwise.
C8_HealthNeverRaises ==
    last.op = "health_check" =>
        /\ last.status = 200
        /\ Len(last.calls) = 1
        /\ IF BackendAnswered(last)
           THEN last.body.podman_available /\ "version" \in DOMAIN last.body
           ELSE ~last.body.podman_available /\ "error" \in DOMAIN last.body

\* the health of a server whose backend could not be reached or run
C8_Witness ==
    /\ last.op = "health_check"
    /\ last.env.kind \in {"connfail", "missing"}
    /\ last.status = 200
    /\ ~last.body.podman_available

\* the canonical shapes of a secret
CanonicalSummary(s) ==
    [ID |-> s.ID, Name |-> s.Name, Driver |-> s.Driver,
     CreatedAt |-> s.CreatedAt, UpdatedAt |-> s.UpdatedAt]

CanonicalDetail(s) ==
    [ID |-> s.ID, Name |-> s.Name, Driver |-> s.Driver,
     CreatedAt |-> s.CreatedAt, UpdatedAt |-> s.UpdatedAt,
     Spec |-> [Name |-> s.Name, Driver |-> [Name |-> s.Driver, Options |-> <<>>]]]

\* C9 as stated: for the same secrets of the runtime, list_secrets and
\* inspect_secret answer the same canonical result in both modes: the list is
\* the ordered sequence of {ID, Name, Driver, CreatedAt, UpdatedAt}, the detail
\* the same fields and the nested Spec, Name and Driver flattened out of Spec.
C9_SameShapeInBothModes ==
    /\ (last.op = "list_secrets" /\ last.status # 401 /\ last.env.kind = "ok") =>
          /\ last.status = 200
          /\ last.body = [i \in DOMAIN last.env.data |-> CanonicalSummary(Secret(last.env.data[i]))]
    /\ (last.op = "inspect_secret" /\ last.status # 401 /\ last.env.kind = "ok"
        /\ Holds(last.env.data, last.input)) =>
          /\ last.status = 200
          /\ last.body = CanonicalDetail(Secret(last.input))

\* the backend's own answers for a secret id the runtime does not know
UnknownIdAnswer(req) ==
    /\ ~Holds(req.env.data, req.input)
    /\ IF USE_HTTP_API
       THEN (req.env.kind = "status" /\ req.env.code = 404) \/ req.env.kind = "empty"
       ELSE req.env.kind = "nonzero" \/ (req.env.kind = "ok" /\ req.env.json = <<>>)

\* C10 as stated: inspect_secret of a secret id the runtime does not know ends
\* with 404 in both modes: in local-exec mode when the command exits non-zero
\* or prints an empty list, in remote-API mode when the upstream answers 404 or
\* an empty body.
C10_UnknownIdIs404 ==
    (last.op = "inspect_secret" /\ last.status # 401 /\ UnknownIdAnswer(last)) =>
        last.status = 404

----------------------------------------------------------------------------
(* C11: init_db is idempotent with respect to the bootstrap user.  Through *)
(* every sequence of init_db runs and password changes the store holds at  *)
(* most one record named "admin", and exactly one once init_db has run.    *)
(* The first init_db of a process on an empty store adds that record with  *)
(* the password "admin"; an init_db on a store that has the record leaves  *)
(* the store as it is, changed password hash included; and the only other  *)
(* step that changes the store is a successful change_password, which      *)
(* rewrites the hash of one record and keeps its id and username.          *)

Admins(table) == {u \in table : u.username = "admin"}

C11_OneAdmin ==
    /\ Cardinality(Admins(users)) <= 1
    /\ started => Cardinality(Admins(users)) = 1

\* started is set by init_db alone
FirstStart == ~started /\ started'

PasswordChanged ==
    /\ last'.op = "change_password"
    /\ last'.status = 200
    /\ last'.at = now
    /\ \E before \in users, after \in users' :
          /\ users' = (users \ {before}) \cup {after}
          /\ after.id = before.id
          /\ after.username = before.username
          /\ after.created_at = before.created_at
          /\ verify_password(last'.input[2], after.hashed_password)

C11_StoreStep ==
    /\ FirstStart /\ users = {} =>
          \E admin \in users' :
             /\ users' = {admin}
             /\ admin.username = "admin"
             /\ verify_password("admin", admin.hashed_password)
    /\ FirstStart /\ Admins(users) # {} => users' = users
    /\ started /\ users' # users => PasswordChanged

C11_InitDbIdempotent == []C11_OneAdmin /\ [][C11_StoreStep]_vars

\* init_db has run on a store whose bootstrap user had changed the password,
\* before any request of this process: the changed hash is still there
C11_Witness ==
    /\ started
    /\ last.op = "none"
    /\ \E admin \in users :
          /\ users = {admin}
          /\ admin.username = "admin"
          /\ verify_password("s3cret", admin.hashed_password)
          /\ ~verify_password("admin", admin.hashed_password)

----------------------------------------------------------------------------
(* C12: every entry of the failed list that create_bulk_secrets returns    *)
(* carries the name exactly as the corresponding input entry gave it,      *)
(* whatever made the entry fail: validation, a non-zero exit or an error   *)
(* answer of the backend, or an exception.                                 *)

C12_FailedKeepsGivenName ==
    last.op = "create_bulk_secrets" =>
        LET bad == Indices(last, NotCreated)
        IN  /\ Len(last.body.failed) = Len(bad)
            /\ \A i \in DOMAIN bad : last.body.failed[i].name = last.input[bad[i]].name

====
